---- MODULE Spec2Model ----
(***************************************************************************)
(* Model of the string-processing sample (src/stringFx.go) and of the      *)
(* rune/byte notes that accompany it (src/unnamed/part_000).               *)
(*                                                                         *)
(* The sample is a Go program: its TextBuffer is strings.Builder, its Text *)
(* is the Go string, its CodepointView is `for i, r := range str`, its     *)
(* Segmenter is package strings.  Every operation below is the Go          *)
(* operation the source calls, computed the way Go computes it.            *)
(***************************************************************************)
EXTENDS Integers, Sequences, FiniteSets, TLC

VARIABLES
    \* ---- strings.Builder (stringFx.go:81-107) ----
    heap,      \* backing arrays ever allocated: heap[p] = bytes written so far, capacity
    buf,       \* the builder's slice header [ptr, len, cap]; ptr = 0 is nil
    snaps,     \* strings returned by String(): header [ptr, len] + bytes seen when taken
    log,       \* inputs appended since creation / the most recent Reset
    pre,       \* slice header and contents immediately before the last operation
    lastOp,    \* the last operation performed on the builder
    nAppends,  \* number of Write* calls so far (bounded)
    \* ---- range over a string, []rune(str), string(runes) (part_000:520-605) ----
    str,       \* the string being iterated
    pos,       \* byte index of the next iteration of the range loop
    pairs,     \* (byte index, rune) pairs the range loop has produced
    out,       \* bytes re-encoded from the runes so far
    pc,        \* position of the rune program
    \* ---- package strings calls (stringFx.go:30-61) ----
    sText,     \* the text argument
    sSep,      \* the separator argument
    parts,     \* result of strings.Split
    joined,    \* result of strings.Join
    spc,       \* position of the segmenter program
    sNew,      \* the replacement argument of strings.Replace
    sN,        \* the count argument of strings.Replace / strings.Repeat
    sOut,      \* the string the last strings call returned
    sCount,    \* the number strings.Count returned
    sStatus,   \* how the last strings call ended: "ok" or "panic"
    \* ---- package regexp calls (stringFx.go:67-73) ----
    mSrc,      \* the pattern source given to regexp.MustCompile
    mPat,      \* the compiled pattern (rg)
    mText,     \* the text searched
    mLimit,    \* the n argument of FindAllString
    matches,   \* the matches found, as [start, end, text]
    mpc        \* position of the regexp program

bufVars  == <<heap, buf, snaps, log, pre, lastOp, nAppends>>
runeVars == <<str, pos, pairs, out, pc>>
segVars  == <<sText, sSep, parts, joined, spc, sNew, sN, sOut, sCount, sStatus>>
matchVars == <<mSrc, mPat, mText, mLimit, matches, mpc>>
vars     == <<heap, buf, snaps, log, pre, lastOp, nAppends,
              str, pos, pairs, out, pc, sText, sSep, parts, joined, spc,
              sNew, sN, sOut, sCount, sStatus, mSrc, mPat, mText, mLimit, matches, mpc>>

(***************************************************************************)
(* Bounds                                                                  *)
(***************************************************************************)
MaxAppends == 2      \* Write* calls in one run of the builder
MaxSnaps   == 2      \* String() results kept
MaxStrLen  == 4      \* bytes of a string given to the range loop
MaxTextLen == 5      \* bytes of a text given to Split

(***************************************************************************)
(* Small helpers                                                           *)
(***************************************************************************)
Min(a, b) == IF a < b THEN a ELSE b
Max(a, b) == IF a > b THEN a ELSE b

\* all sequences over S of length at most n
SeqsUpTo(S, n) == UNION {[1..k -> S] : k \in 0..n}

\* s[i:] of Go (i is a 0-based byte index)
From(s, i) == SubSeq(s, i + 1, Len(s))

(***************************************************************************)
(* unicode/utf8                                                            *)
(***************************************************************************)
RuneError == 65533      \* U+FFFD
MaxRune   == 1114111    \* U+10FFFF
RuneSelf  == 128

\* EncodeRune with values up to 255 written as one raw byte (Latin-1 style)
EncodeRune_Latin1(r) ==
    LET v == IF r < 0 \/ r > MaxRune \/ (r >= 55296 /\ r <= 57343)
             THEN RuneError ELSE r
    IN  IF v <= 255 THEN <<v>>
        ELSE IF v <= 2047 THEN <<192 + (v \div 64), 128 + (v % 64)>>
        ELSE IF v <= 65535
             THEN <<224 + (v \div 4096), 128 + ((v \div 64) % 64), 128 + (v % 64)>>
        ELSE <<240 + (v \div 262144), 128 + ((v \div 4096) % 64),
               128 + ((v \div 64) % 64), 128 + (v % 64)>>

\* utf8.AppendRune / utf8.EncodeRune: the bytes appended for rune r.
\* Surrogates and values outside 0..MaxRune are encoded as RuneError.
EncodeRune(r) ==
    LET v == IF r < 0 \/ r > MaxRune \/ (r >= 55296 /\ r <= 57343)
             THEN RuneError ELSE r
    IN  IF v <= 127 THEN <<v>>
        ELSE IF v <= 2047 THEN <<192 + (v \div 64), 128 + (v % 64)>>
        ELSE IF v <= 65535
             THEN <<224 + (v \div 4096), 128 + ((v \div 64) % 64), 128 + (v % 64)>>
        ELSE <<240 + (v \div 262144), 128 + ((v \div 4096) % 64),
               128 + ((v \div 64) % 64), 128 + (v % 64)>>

\* utf8's `first` table with its acceptRanges: for a leading byte, the size of
\* the sequence it starts and the range its second byte must lie in.
\* size 0 is the table's xx (invalid leading byte); size 1 is ASCII.
First(b) ==
    IF b < 128 THEN [size |-> 1, lo |-> 0, hi |-> 0]
    ELSE IF b < 194 THEN [size |-> 0, lo |-> 0, hi |-> 0]
    ELSE IF b <= 223 THEN [size |-> 2, lo |-> 128, hi |-> 191]
    ELSE IF b = 224 THEN [size |-> 3, lo |-> 160, hi |-> 191]
    ELSE IF b = 237 THEN [size |-> 3, lo |-> 128, hi |-> 159]
    ELSE IF b <= 239 THEN [size |-> 3, lo |-> 128, hi |-> 191]
    ELSE IF b = 240 THEN [size |-> 4, lo |-> 144, hi |-> 191]
    ELSE IF b <= 243 THEN [size |-> 4, lo |-> 128, hi |-> 191]
    ELSE IF b = 244 THEN [size |-> 4, lo |-> 128, hi |-> 143]
    ELSE [size |-> 0, lo |-> 0, hi |-> 0]

IsCont(b) == b >= 128 /\ b <= 191    \* locb..hicb

\* DecodeRuneInString that shifts the lead byte of a 3- or 4-byte sequence
\* one bit short (11 and 17 bits for 12 and 18)
DecodeRuneInString_WrongShift(s) ==
    LET n == Len(s)
        x == First(s[1])
        bad == [r |-> RuneError, size |-> 1]
    IN  IF x.size = 1 THEN [r |-> s[1], size |-> 1]
        ELSE IF x.size = 0 THEN bad
        ELSE IF n < x.size THEN bad
        ELSE IF s[2] < x.lo \/ x.hi < s[2] THEN bad
        ELSE IF x.size = 2
             THEN [r |-> (s[1] % 32) * 64 + (s[2] % 64), size |-> 2]
        ELSE IF ~IsCont(s[3]) THEN bad
        ELSE IF x.size = 3
             THEN [r |-> (s[1] % 16) * 2048 + (s[2] % 64) * 64 + (s[3] % 64),
                   size |-> 3]
        ELSE IF ~IsCont(s[4]) THEN bad
        ELSE [r |-> (s[1] % 8) * 131072 + (s[2] % 64) * 4096
                     + (s[3] % 64) * 64 + (s[4] % 64),
              size |-> 4]

\* utf8.DecodeRuneInString (and the runtime's decoderune used by range):
\* the first rune of the non-empty s and its width; an invalid or short
\* encoding yields (RuneError, 1).
DecodeRuneInString(s) ==
    LET n == Len(s)
        x == First(s[1])
        bad == [r |-> RuneError, size |-> 1]
    IN  IF x.size = 1 THEN [r |-> s[1], size |-> 1]
        ELSE IF x.size = 0 THEN bad
        ELSE IF n < x.size THEN bad
        ELSE IF s[2] < x.lo \/ x.hi < s[2] THEN bad
        ELSE IF x.size = 2
             THEN [r |-> (s[1] % 32) * 64 + (s[2] % 64), size |-> 2]
        ELSE IF ~IsCont(s[3]) THEN bad
        ELSE IF x.size = 3
             THEN [r |-> (s[1] % 16) * 4096 + (s[2] % 64) * 64 + (s[3] % 64),
                   size |-> 3]
        ELSE IF ~IsCont(s[4]) THEN bad
        ELSE [r |-> (s[1] % 8) * 262144 + (s[2] % 64) * 4096
                     + (s[3] % 64) * 64 + (s[4] % 64),
              size |-> 4]

\* utf8.ValidString: ASCII bytes are skipped (the fast path and the
\* si < RuneSelf branch); every other byte must start a well-formed sequence.
RECURSIVE ValidString(_)
ValidString(s) ==
    IF \A i \in 1..Len(s) : s[i] < RuneSelf THEN TRUE
    ELSE LET k == CHOOSE i \in 1..Len(s) :
                      s[i] >= RuneSelf /\ \A j \in 1..(i - 1) : s[j] < RuneSelf
             t == From(s, k - 1)
             x == First(t[1])
         IN  IF x.size = 0 THEN FALSE
             ELSE IF x.size > Len(t) THEN FALSE
             ELSE IF t[2] < x.lo \/ x.hi < t[2] THEN FALSE
             ELSE IF x.size = 2 THEN ValidString(From(t, 2))
             ELSE IF ~IsCont(t[3]) THEN FALSE
             ELSE IF x.size = 3 THEN ValidString(From(t, 3))
             ELSE IF ~IsCont(t[4]) THEN FALSE
             ELSE ValidString(From(t, 4))

\* a rune count that is the byte count, len(s)
RuneCountInString_Bytes(s) == Len(s)

\* utf8.RuneCountInString: one per iteration; a bad or short encoding
\* counts as one rune of width 1.
RECURSIVE RuneCountInString(_)
RuneCountInString(s) ==
    IF Len(s) = 0 THEN 0
    ELSE IF s[1] < RuneSelf THEN 1 + RuneCountInString(From(s, 1))
    ELSE LET x == First(s[1])
             size == IF x.size = 0 THEN 1
                     ELSE IF x.size > Len(s) THEN 1
                     ELSE IF s[2] < x.lo \/ x.hi < s[2] THEN 1
                     ELSE IF x.size = 2 THEN 2
                     ELSE IF ~IsCont(s[3]) THEN 1
                     ELSE IF x.size = 3 THEN 3
                     ELSE IF ~IsCont(s[4]) THEN 1
                     ELSE 4
         IN  1 + RuneCountInString(From(s, size))

(***************************************************************************)
(* Go slice growth, as used by append on a []byte                          *)
(***************************************************************************)
\* the allocator's small size classes (bytes)
SizeClasses ==
    <<8, 16, 24, 32, 48, 64, 80, 96, 112, 128, 144, 160, 176, 192, 208, 224,
      240, 256, 288, 320, 352, 384, 416, 448, 480, 512, 576, 640, 704, 768,
      896, 1024, 1152, 1280, 1408, 1536, 1792, 2048, 2304, 2688, 3072, 3200,
      3456, 4096, 4864, 5120, 5376, 6144, 6528, 6784, 6912, 8192, 9472, 9728,
      10240, 10880, 12288, 13568, 14336, 16384, 18432, 19072, 20480, 21760,
      24576, 27264, 28672, 32768>>

\* roundupsize: the size of the block the allocator returns for n bytes
roundupsize(n) ==
    IF n = 0 THEN 0
    ELSE IF n <= 32768
         THEN SizeClasses[CHOOSE i \in 1..Len(SizeClasses) :
                  /\ SizeClasses[i] >= n
                  /\ \A j \in 1..(i - 1) : SizeClasses[j] < n]
    ELSE ((n + 8191) \div 8192) * 8192

\* the loop of nextslicecap: grow by (newcap + 3*256)/4 until newLen fits
RECURSIVE growLoop(_, _)
growLoop(newcap, newLen) ==
    LET c == newcap + ((newcap + 768) \div 4)
    IN  IF c >= newLen THEN c ELSE growLoop(c, newLen)

\* nextslicecap without the test that the doubled capacity holds newLen
nextslicecap_NoFit(newLen, oldCap) == oldCap + oldCap

\* nextslicecap that asks for exactly newLen (no geometric growth)
nextslicecap_Exact(newLen, oldCap) == newLen

\* nextslicecap: the capacity asked for when a slice of capacity oldCap
\* must hold newLen elements
nextslicecap(newLen, oldCap) ==
    IF newLen > oldCap + oldCap THEN newLen
    ELSE IF oldCap < 256 THEN oldCap + oldCap
    ELSE growLoop(oldCap, newLen)

\* the bytes of array a at indices [from, from + Len(bytes)) replaced by bytes
Overwrite(a, from, bytes) ==
    [i \in 1..Max(Len(a), from + Len(bytes)) |->
        IF i > from /\ i <= from + Len(bytes) THEN bytes[i - from] ELSE a[i]]

NilSlice == [ptr |-> 0, len |-> 0, cap |-> 0]

\* b[:len(b)] read from memory
SliceBytes(h, b) == IF b.ptr = 0 THEN <<>> ELSE SubSeq(h[b.ptr].data, 1, b.len)

\* append whose growth does not copy the old elements into the new array
append_NoCopy(h, b, bytes) ==
    LET newLen == b.len + Len(bytes)
    IN  IF newLen <= b.cap
        THEN [heap |-> IF Len(bytes) = 0 THEN h
                       ELSE [h EXCEPT ![b.ptr].data = Overwrite(@, b.len, bytes)],
              buf  |-> [b EXCEPT !.len = newLen]]
        ELSE LET newcap == roundupsize(nextslicecap(newLen, b.cap))
             IN  [heap |-> Append(h, [data |-> [i \in 1..b.len |-> 0] \o bytes,
                                      cap  |-> newcap]),
                  buf  |-> [ptr |-> Len(h) + 1, len |-> newLen, cap |-> newcap]]

\* append(b, bytes...): writes in place when the bytes fit, otherwise
\* allocates a larger array (growslice) and copies.  Returns the new heap
\* and slice header.
append(h, b, bytes) ==
    LET newLen == b.len + Len(bytes)
    IN  IF newLen <= b.cap
        THEN [heap |-> IF Len(bytes) = 0 THEN h
                       ELSE [h EXCEPT ![b.ptr].data = Overwrite(@, b.len, bytes)],
              buf  |-> [b EXCEPT !.len = newLen]]
        ELSE LET newcap == roundupsize(nextslicecap(newLen, b.cap))
             IN  [heap |-> Append(h, [data |-> SliceBytes(h, b) \o bytes,
                                      cap  |-> newcap]),
                  buf  |-> [ptr |-> Len(h) + 1, len |-> newLen, cap |-> newcap]]

(***************************************************************************)
(* strings.Builder                                                         *)
(***************************************************************************)
\* inputs of the Write* calls
BigText   == [i \in 1..352 |-> 97]                 \* 352 times "a"
Texts     == {<<65>>, <<195, 169>>, BigText}       \* "A", "é", BigText
Runes     == {65, 233, 8364, 128153, 55296}       \* 'A', 'é', U+20AC, U+1F499, a surrogate
ByteFrags == {<<195>>, <<169>>}                    \* a truncated "é", its tail

Contents == SliceBytes(heap, buf)

\* the pre-state recorded by every builder operation
Pre == [buf |-> buf, bytes |-> Contents, op |-> lastOp]

\* keep the last MaxSnaps results of String()
Remember(ss, s) == IF Len(ss) < MaxSnaps THEN Append(ss, s) ELSE Append(Tail(ss), s)

\* the bytes a string header denotes
StringBytes(h, s) == IF s.ptr = 0 \/ s.len = 0 THEN <<>> ELSE SubSeq(h[s.ptr].data, 1, s.len)

idleRunes == str = <<>> /\ pos = 0 /\ pairs = <<>> /\ out = <<>> /\ pc = "idle"
idleOp    == sNew = <<>> /\ sN = 0 /\ sOut = <<>> /\ sCount = 0 /\ sStatus = "none"
idleMatch == /\ mSrc = <<>> /\ mPat = <<>> /\ mText = <<>> /\ mLimit = 0
             /\ matches = <<>> /\ mpc = "idle"
idleSeg   == /\ sText = <<>> /\ sSep = <<>> /\ parts = <<>> /\ joined = <<>> /\ spc = "idle"
             /\ idleOp /\ idleMatch
idleBuf   == /\ heap = <<>> /\ buf = NilSlice /\ snaps = <<>> /\ log = <<>>
             /\ pre = [buf |-> NilSlice, bytes |-> <<>>, op |-> "new"]
             /\ lastOp = "new" /\ nAppends = 0

\* var builder strings.Builder
Init == idleBuf /\ idleRunes /\ idleSeg

\* the common part of the three Write* methods: b.buf = append(b.buf, bytes...)
DoAppend(op, input, bytes) ==
    LET a == append(heap, buf, bytes)
    IN  /\ nAppends < MaxAppends
        /\ heap' = a.heap
        /\ buf' = a.buf
        /\ log' = Append(log, [op |-> op, input |-> input])
        /\ pre' = Pre
        /\ lastOp' = op
        /\ nAppends' = nAppends + 1
        /\ UNCHANGED <<snaps, runeVars, segVars, matchVars>>

\* builder.WriteString(s)
WriteString == \E s \in Texts : DoAppend("WriteString", s, s)

\* builder.WriteRune(r): b.buf = utf8.AppendRune(b.buf, r)
WriteRune == \E r \in Runes : DoAppend("WriteRune", r, EncodeRune(r))

\* builder.Write(p)
Write == \E p \in ByteFrags : DoAppend("Write", p, p)

\* String() that hands its array over and empties the builder
String_Consume ==
    /\ snaps' = Remember(snaps, [ptr |-> buf.ptr, len |-> buf.len, taken |-> Contents,
                                 status |-> "ok"])
    /\ buf' = NilSlice
    /\ pre' = Pre
    /\ lastOp' = "String"
    /\ UNCHANGED <<heap, log, nAppends, runeVars, segVars, matchVars>>

\* builder.String(): a string header over the builder's array; nothing is
\* copied, nothing is validated, the builder is not changed.
String ==
    /\ snaps' = Remember(snaps, [ptr |-> buf.ptr, len |-> buf.len, taken |-> Contents,
                                 status |-> "ok"])
    /\ pre' = Pre
    /\ lastOp' = "String"
    /\ UNCHANGED <<heap, buf, log, nAppends, runeVars, segVars, matchVars>>

\* Reset() that truncates in place, b.buf = b.buf[:0], keeping the array
Reset_KeepArray ==
    /\ buf' = [buf EXCEPT !.len = 0]
    /\ log' = <<>>
    /\ pre' = Pre
    /\ lastOp' = "Reset"
    /\ UNCHANGED <<heap, snaps, nAppends, runeVars, segVars, matchVars>>

\* builder.Reset(): b.addr = nil; b.buf = nil
Reset ==
    /\ buf' = NilSlice
    /\ log' = <<>>
    /\ pre' = Pre
    /\ lastOp' = "Reset"
    /\ UNCHANGED <<heap, snaps, nAppends, runeVars, segVars, matchVars>>

Next == WriteString \/ WriteRune \/ Write \/ String \/ Reset

Spec == Init /\ [][Next]_vars

(***************************************************************************)
(* Properties of the builder (specification Spec)                          *)
(***************************************************************************)
AppendOps == {"WriteString", "WriteRune", "Write"}

\* the last operation was an append that did not fit the capacity it found
Overflowed == lastOp \in AppendOps /\ buf.len > pre.buf.cap

LastSnap == snaps[Len(snaps)]

\* a Unicode scalar value: a code point that is not a surrogate
IsScalar(v) == v >= 0 /\ v <= MaxRune /\ ~(v >= 55296 /\ v <= 57343)

\* the number of bytes UTF-8 uses for scalar value v
Utf8Width(v) == IF v < 128 THEN 1 ELSE IF v < 2048 THEN 2 ELSE IF v < 65536 THEN 3 ELSE 4

\* C1 as stated: after every operation the length is at most the capacity
\* and the capacity is not smaller than it was before that operation.
C1_NeverShrinks == buf.len <= buf.cap /\ buf.cap >= pre.buf.cap

\* C1 amended: after every operation the length is at most the capacity; no
\* Write, WriteRune, WriteString or String makes the capacity smaller than it
\* was before it; Reset gives the array up, so the capacity after it is zero.
C1_LenWithinCap_ShrinkOnlyByReset ==
    /\ buf.len <= buf.cap
    /\ lastOp # "Reset" => buf.cap >= pre.buf.cap
    /\ lastOp = "Reset" => buf.cap = 0

C1_Witness == lastOp \in AppendOps /\ pre.buf.cap > 0 /\ buf.cap > pre.buf.cap

\* C2 as stated: Reset sets the length to zero and leaves the capacity as it
\* was immediately before.
C2_ResetKeepsCapacity == lastOp = "Reset" => buf.len = 0 /\ buf.cap = pre.buf.cap

\* C2 amended: Reset sets the length to zero and releases the array: the
\* builder is nil again, capacity zero, whatever the capacity was before.
C2_ResetReleasesArray ==
    lastOp = "Reset" => buf.len = 0 /\ buf.cap = 0 /\ buf.ptr = 0

C2_Witness == lastOp = "Reset" /\ pre.buf.cap > 0 /\ pre.buf.len > 0

C4_StringDoesNotMutate ==
    lastOp = "String" =>
        /\ buf = pre.buf
        /\ Contents = pre.bytes
        /\ pre.op = "String" =>
              StringBytes(heap, LastSnap) = StringBytes(heap, snaps[Len(snaps) - 1])

C4_Witness == lastOp = "String" /\ pre.op = "String" /\ buf.len > 0

\* C5 as stated: String() of a builder whose bytes are not valid UTF-8 fails
\* with EncodingError and returns no string.
C5_InvalidBytesRejected ==
    (lastOp = "String" /\ ~ValidString(pre.bytes)) =>
        LastSnap.status = "EncodingError"

\* C6: WriteRune(v) on an empty builder followed by String() gives the UTF-8
\* encoding of scalar value v: a valid string of Utf8Width(v) bytes that
\* decodes to the single rune v at byte index 0; for U+00E9 it is C3 A9.
C6_ScalarThenString ==
    \A v \in Runes :
        (/\ lastOp = "String" /\ pre.op = "WriteRune"
         /\ log = <<[op |-> "WriteRune", input |-> v]>>
         /\ IsScalar(v)) =>
            LET t == StringBytes(heap, LastSnap)
            IN  /\ Len(t) = Utf8Width(v)
                /\ ValidString(t)
                /\ DecodeRuneInString(t) = [r |-> v, size |-> Len(t)]
                /\ v = 233 => t = <<195, 169>>

C6_Witness ==
    /\ lastOp = "String" /\ pre.op = "WriteRune"
    /\ log = <<[op |-> "WriteRune", input |-> 233]>>
    /\ StringBytes(heap, LastSnap) = <<195, 169>>

(***************************************************************************)
(* Runes: range over a string, []rune(str), string(runes)                  *)
(***************************************************************************)
\* bytes the strings are drawn from: "A"; C3 A9 ("é"); E2 82 A9 (U+20A9);
\* F0 9F 92 A9 (U+1F4A9); ED and E0, whose second byte is restricted
StrBytes == {65, 195, 169, 226, 130, 240, 159, 146, 237, 224}

\* []rune(str): the runes of s, decoded front to back
RECURSIVE StringToRunes(_)
StringToRunes(s) ==
    IF Len(s) = 0 THEN <<>>
    ELSE LET d == DecodeRuneInString(s)
         IN  <<d.r>> \o StringToRunes(From(s, d.size))

\* string(runes): the encodings of the runes, concatenated in order
RECURSIVE RunesToString(_)
RunesToString(rs) ==
    IF Len(rs) = 0 THEN <<>>
    ELSE EncodeRune(Head(rs)) \o RunesToString(Tail(rs))

InitRunes ==
    /\ idleBuf /\ idleSeg
    /\ str \in SeqsUpTo(StrBytes, MaxStrLen)
    /\ pos = 0 /\ pairs = <<>> /\ out = <<>> /\ pc = "range"

\* the byte-by-byte loop of part_000:544-546 in place of the range loop
RangeStep_ByteWise ==
    /\ pc = "range" /\ pos < Len(str)
    /\ pairs' = Append(pairs, [i |-> pos, r |-> DecodeRuneInString(From(str, pos)).r])
    /\ pos' = pos + 1
    /\ UNCHANGED <<str, out, pc, bufVars, segVars, matchVars>>

\* one iteration of `for i, r := range str`: decode the rune at byte index
\* pos, hand (pos, rune) to the body, advance by the rune's width
RangeStep ==
    /\ pc = "range" /\ pos < Len(str)
    /\ LET d == DecodeRuneInString(From(str, pos))
       IN  /\ pairs' = Append(pairs, [i |-> pos, r |-> d.r])
           /\ pos' = pos + d.size
    /\ UNCHANGED <<str, out, pc, bufVars, segVars, matchVars>>

\* the range loop ends when the index reaches len(str)
RangeEnd ==
    /\ pc = "range" /\ pos >= Len(str)
    /\ pc' = "ranged"
    /\ UNCHANGED <<str, pos, pairs, out, bufVars, segVars, matchVars>>

\* runes := []rune(str), then the runes encoded back into a string
Reencode ==
    /\ pc = "ranged"
    /\ out' = RunesToString(StringToRunes(str))
    /\ pc' = "done"
    /\ UNCHANGED <<str, pos, pairs, bufVars, segVars, matchVars>>

NextRunes == RangeStep \/ RangeEnd \/ Reencode

SpecRunes == InitRunes /\ [][NextRunes]_vars

(***************************************************************************)
(* Properties of the rune program (specification SpecRunes)                *)
(***************************************************************************)
\* C7: for a valid UTF-8 string, decoding it into runes and encoding the
\* runes back in order gives the same bytes.
C7_DecodeEncodeRoundTrip == (pc = "done" /\ ValidString(str)) => out = str

C7_Witness ==
    /\ pc = "done" /\ ValidString(str) /\ out = str
    /\ Len(StringToRunes(str)) >= 2 /\ Len(StringToRunes(str)) < Len(str)

\* C8: for a valid UTF-8 string the byte indices produced by the range loop
\* start at 0, each is the previous index plus the encoded width of the
\* previous rune (so they increase strictly), and when the loop has ended
\* the last index plus the width of the last rune is len(str).
C8_OffsetsFollowWidths ==
    ValidString(str) =>
        /\ pairs # <<>> => pairs[1].i = 0
        /\ \A k \in 1..(Len(pairs) - 1) :
              /\ pairs[k + 1].i = pairs[k].i + Len(EncodeRune(pairs[k].r))
              /\ pairs[k + 1].i > pairs[k].i
        /\ (pc # "range" /\ pairs # <<>>) =>
              pairs[Len(pairs)].i + Len(EncodeRune(pairs[Len(pairs)].r)) = Len(str)
        /\ (pc # "range" /\ pairs = <<>>) => Len(str) = 0

C8_Witness ==
    /\ pc = "ranged" /\ ValidString(str)
    /\ Len(pairs) >= 2 /\ pairs[2].i >= 2 /\ pairs[Len(pairs)].i + 1 < Len(str)

\* C9: for a valid UTF-8 string the number of runes (pairs of the finished
\* range loop, utf8.RuneCountInString, len([]rune(str))) is at most
\* len(str), and equals it exactly when every rune encodes to one byte.
C9_RuneCountVsByteLength ==
    (pc # "range" /\ ValidString(str)) =>
        /\ Len(pairs) <= Len(str)
        /\ (Len(pairs) = Len(str)) <=> (\A k \in 1..Len(pairs) : Utf8Width(pairs[k].r) = 1)
        /\ RuneCountInString(str) = Len(pairs)
        /\ Len(StringToRunes(str)) = Len(pairs)

C9_Witness ==
    /\ pc = "ranged" /\ ValidString(str) /\ Len(str) = 4
    /\ RuneCountInString(str) = 3 /\ Len(pairs) = 3

(***************************************************************************)
(* package strings: Split, Join                                            *)
(***************************************************************************)
\* strings.HasPrefix(s, prefix)
HasPrefix(s, prefix) == Len(s) >= Len(prefix) /\ SubSeq(s, 1, Len(prefix)) = prefix

\* strings.Index(s, substr): byte index of the first occurrence, or -1
Index(s, substr) ==
    LET at == {i \in 0..(Len(s) - Len(substr)) : HasPrefix(From(s, i), substr)}
    IN  IF at = {} THEN -1 ELSE CHOOSE i \in at : \A j \in at : i <= j

\* Count that resumes one byte after the start of a match, so that
\* overlapping occurrences are counted
RECURSIVE Count_Overlapping(_, _)
Count_Overlapping(s, substr) ==
    IF Len(substr) = 0 THEN RuneCountInString(s) + 1
    ELSE LET i == Index(s, substr)
         IN  IF i = -1 THEN 0 ELSE 1 + Count_Overlapping(From(s, i + 1), substr)

\* strings.Count(s, substr): non-overlapping occurrences, found left to right;
\* for the empty substr, one more than the number of runes
RECURSIVE Count(_, _)
Count(s, substr) ==
    IF Len(substr) = 0 THEN RuneCountInString(s) + 1
    ELSE LET i == Index(s, substr)
         IN  IF i = -1 THEN 0 ELSE 1 + Count(From(s, i + Len(substr)), substr)

\* explode: s cut into its UTF-8 sequences, at most n of them, the last one
\* holding the rest
RECURSIVE explodeLoop(_, _)
explodeLoop(s, n) ==
    IF n <= 0 THEN <<>>
    ELSE IF n = 1 THEN <<s>>
    ELSE LET size == DecodeRuneInString(s).size
         IN  <<SubSeq(s, 1, size)>> \o explodeLoop(From(s, size), n - 1)

explode(s, n) ==
    LET l == RuneCountInString(s)
    IN  explodeLoop(s, IF n < 0 \/ n > l THEN l ELSE n)

\* the loop of genSplit: cut at the first separator while fewer than n
\* pieces have been cut; the rest of s is the last piece
RECURSIVE genSplitLoop(_, _, _)
genSplitLoop(s, sep, n) ==
    LET m == Index(s, sep)
    IN  IF n > 0 /\ m >= 0
        THEN <<SubSeq(s, 1, m)>> \o genSplitLoop(From(s, m + Len(sep)), sep, n - 1)
        ELSE <<s>>

\* genSplit(s, sep, 0, n)
genSplit(s, sep, n) ==
    IF n = 0 THEN <<>>
    ELSE IF sep = <<>> THEN explode(s, n)
    ELSE LET c == IF n < 0 THEN Count(s, sep) + 1 ELSE n
         IN  genSplitLoop(s, sep, Min(c, Len(s) + 1) - 1)

\* Split that leaves out the empty pieces
Split_DropEmpty(s, sep) == SelectSeq(genSplit(s, sep, -1), LAMBDA x : x # <<>>)

\* strings.Split(s, sep)
Split(s, sep) == genSplit(s, sep, -1)

\* strings.Join(elems, sep)
RECURSIVE Join(_, _)
Join(elems, sep) ==
    IF Len(elems) = 0 THEN <<>>
    ELSE IF Len(elems) = 1 THEN elems[1]
    ELSE elems[1] \o sep \o Join(Tail(elems), sep)

\* bytes the texts and separators are drawn from: "a", "b", ","
SegBytes  == {97, 98, 44}
MaxSepLen == 2
ABCommaC  == <<97, 44, 98, 44, 44, 99>>     \* "a,b,,c"

InitSeg ==
    /\ idleBuf /\ idleRunes /\ idleOp /\ idleMatch
    /\ sText \in SeqsUpTo(SegBytes, MaxTextLen) \cup {ABCommaC}
    /\ sSep \in SeqsUpTo(SegBytes, MaxSepLen)
    /\ parts = <<>> /\ joined = <<>> /\ spc = "start"

\* parts := strings.Split(text, sep)
DoSplit ==
    /\ spc = "start"
    /\ parts' = Split(sText, sSep)
    /\ sStatus' = "ok"
    /\ spc' = "split"
    /\ UNCHANGED <<sText, sSep, joined, sNew, sN, sOut, sCount, bufVars, runeVars, matchVars>>

\* strings.Join(parts, sep)
DoJoin ==
    /\ spc = "split"
    /\ joined' = Join(parts, sSep)
    /\ spc' = "joined"
    /\ UNCHANGED <<sText, sSep, parts, sNew, sN, sOut, sCount, sStatus, bufVars, runeVars, matchVars>>

NextSeg == DoSplit \/ DoJoin

SpecSeg == InitSeg /\ [][NextSeg]_vars

(***************************************************************************)
(* Properties of Split and Join (specification SpecSeg)                    *)
(***************************************************************************)
\* C10: for every text and every non-empty separator, joining the pieces of
\* Split with the same separator gives the text back; Split keeps the empty
\* piece between two consecutive separators: "a,b,,c" split on "," is
\* ["a", "b", "", "c"], which joins back to "a,b,,c".
C10_JoinInvertsSplit ==
    /\ (spc = "joined" /\ sSep # <<>>) => joined = sText
    /\ (spc # "start" /\ sText = ABCommaC /\ sSep = <<44>>) =>
          parts = <<(<<97>>), (<<98>>), (<<>>), (<<99>>)>>

C10_Witness ==
    /\ spc = "joined" /\ sText = ABCommaC /\ sSep = <<44>>
    /\ parts = <<(<<97>>), (<<98>>), (<<>>), (<<99>>)>>
    /\ joined = ABCommaC

\* C11 as stated: Split with an empty separator fails with InvalidArgument
\* for every text and returns no sequence of parts.
C11_EmptySeparatorRejected ==
    (spc # "start" /\ sSep = <<>>) => (sStatus = "InvalidArgument" /\ parts = <<>>)

(***************************************************************************)
(* package strings: Replace, Count, Repeat                                 *)
(***************************************************************************)
\* the loop of strings.Replace: n times, copy up to the next occurrence of
\* old (for the empty old: up to the next rune boundary), write new, and
\* resume right after the occurrence; then copy the rest
RECURSIVE replaceLoop(_, _, _, _, _, _)
replaceLoop(s, old, new, i, n, start) ==
    IF i >= n THEN From(s, start)
    ELSE LET j == IF Len(old) = 0
                  THEN IF i > 0
                       THEN start + DecodeRuneInString(From(s, start)).size
                       ELSE start
                  ELSE start + Index(From(s, start), old)
         IN  SubSeq(s, start + 1, j) \o new
                 \o replaceLoop(s, old, new, i + 1, n, j + Len(old))

\* Replace that replaces every occurrence whatever n says
Replace_IgnoreMax(s, old, new, n) ==
    IF old = new \/ n = 0 THEN s
    ELSE LET m == Count(s, old)
         IN  IF m = 0 THEN s ELSE replaceLoop(s, old, new, 0, m, 0)

\* strings.Replace(s, old, new, n); n < 0 means no limit
Replace(s, old, new, n) ==
    IF old = new \/ n = 0 THEN s
    ELSE LET m == Count(s, old)
         IN  IF m = 0 THEN s
             ELSE replaceLoop(s, old, new, 0, IF n < 0 \/ m < n THEN m ELSE n, 0)

\* n copies of s, one after the other
Copies(s, n) == [i \in 1..(Len(s) * n) |-> s[((i - 1) % Len(s)) + 1]]

\* strings.Repeat(s, count): panics for a negative count.  (It also panics
\* when len(s) * count exceeds the largest 64-bit int, which no input drawn
\* here comes near.)
Repeat(s, count) ==
    IF count = 0 THEN [status |-> "ok", val |-> <<>>]
    ELSE IF count = 1 THEN [status |-> "ok", val |-> s]
    ELSE IF count < 0 THEN [status |-> "panic", val |-> <<>>]
    ELSE IF Len(s) = 0 THEN [status |-> "ok", val |-> <<>>]
    ELSE [status |-> "ok", val |-> Copies(s, count)]

\* bytes the texts and needles are drawn from: "a", "b"
ReplBytes    == {97, 98}
AE           == <<97, 195, 169>>            \* "aé"
Replacements == {<<>>, <<98>>, <<88>>, <<88, 89>>}   \* "", "b", "X", "XY"
MaxCount     == 2                           \* largest count argument

InitRepl ==
    /\ idleBuf /\ idleRunes /\ idleOp /\ idleMatch
    /\ sText \in SeqsUpTo(ReplBytes, MaxTextLen) \cup {AE}
    /\ sSep \in SeqsUpTo(ReplBytes, MaxSepLen)
    /\ parts = <<>> /\ joined = <<>> /\ spc = "start"

\* strings.Replace(text, needle, new, n)
DoReplace ==
    /\ spc = "start"
    /\ \E new \in Replacements, n \in -1..MaxCount :
          /\ sOut' = Replace(sText, sSep, new, n)
          /\ sNew' = new
          /\ sN' = n
    /\ sStatus' = "ok"
    /\ spc' = "replaced"
    /\ UNCHANGED <<sText, sSep, parts, joined, sCount, bufVars, runeVars, matchVars>>

\* strings.Count(text, needle)
DoCount ==
    /\ spc = "start"
    /\ sCount' = Count(sText, sSep)
    /\ sStatus' = "ok"
    /\ spc' = "counted"
    /\ UNCHANGED <<sText, sSep, parts, joined, sNew, sN, sOut, bufVars, runeVars, matchVars>>

\* strings.Repeat(text, n); a panic is not recovered in main and ends the
\* process
DoRepeat ==
    /\ spc = "start"
    /\ \E n \in -1..MaxCount :
          LET r == Repeat(sText, n)
          IN  /\ sOut' = r.val
              /\ sStatus' = r.status
              /\ sN' = n
              /\ spc' = IF r.status = "panic" THEN "panicked" ELSE "repeated"
    /\ UNCHANGED <<sText, sSep, parts, joined, sNew, sCount, bufVars, runeVars, matchVars>>

NextRepl == DoReplace \/ DoCount \/ DoRepeat

SpecRepl == InitRepl /\ [][NextRepl]_vars

(***************************************************************************)
(* Properties of Replace, Count, Repeat (specification SpecRepl)           *)
(***************************************************************************)
\* the number of replacements asked for by n when there are k occurrences
Replaced(n, k) == IF n < 0 \/ k < n THEN k ELSE n

\* the pieces of s around the first m occurrences of the empty string: the
\* first m - 1 UTF-8 sequences and the rest
EmptyPieces(s, m) ==
    IF m <= RuneCountInString(s) THEN explodeLoop(s, m)
    ELSE explodeLoop(s, m - 1) \o << <<>> >>

\* the number of bytes of s equal to b
NumBytes(s, b) == Cardinality({i \in 1..Len(s) : s[i] = b})

\* C12: Replace replaces exactly the first min(n, k) of the k occurrences
\* found left to right without overlap and leaves everything else as it
\* was: the result is the text cut at those occurrences and joined with the
\* replacement (for the empty needle the occurrences are the start of the
\* text and the end of each UTF-8 sequence); "aaa" with "aa" -> "b",
\* unlimited, is "ba".
C12_ReplaceLeftmostNonOverlapping ==
    spc = "replaced" =>
        /\ sSep # <<>> =>
              LET m == Replaced(sN, Len(Split(sText, sSep)) - 1)
              IN  /\ sOut = Join(genSplit(sText, sSep, m + 1), sNew)
                  /\ Len(sOut) = Len(sText) + m * (Len(sNew) - Len(sSep))
        /\ (sSep = <<>> /\ sNew # <<>> /\ sN # 0) =>
              LET m == Replaced(sN, Len(StringToRunes(sText)) + 1)
              IN  sOut = sNew \o Join(EmptyPieces(sText, m), sNew)
        /\ (sText = <<97, 97, 97>> /\ sSep = <<97, 97>> /\ sNew = <<98>> /\ sN = -1) =>
              sOut = <<98, 97>>

C12_Witness ==
    /\ spc = "replaced" /\ sText = <<97, 97, 97, 97, 97>> /\ sSep = <<97, 97>>
    /\ sNew = <<88, 89>> /\ sN = 1 /\ sOut = <<88, 89, 97, 97, 97>>

\* C13: Count is the number of replacements Replace makes with no limit:
\* the occurrences found left to right without overlap; Count("aaaa", "aa")
\* is 2.
C13_CountMatchesReplace ==
    spc = "counted" =>
        /\ sCount = NumBytes(Replace(sText, sSep, <<88>>, -1), 88)
        /\ sSep # <<>> => sCount = Len(Split(sText, sSep)) - 1
        /\ (sText = <<97, 97, 97, 97>> /\ sSep = <<97, 97>>) => sCount = 2

C13_Witness ==
    /\ spc = "counted" /\ sText = <<97, 97, 97, 97>> /\ sSep = <<97, 97>> /\ sCount = 2

\* C16 as stated: Repeat returns n copies for every n >= 0 (none for 0);
\* for a negative n it fails with InvalidArgument, reported to the caller
\* as a failure result, and returns no text.
C16_RepeatContract ==
    spc \in {"repeated", "panicked"} =>
        IF sN >= 0
        THEN sStatus = "ok" /\ sOut = Copies(sText, sN)
        ELSE sStatus = "InvalidArgument" /\ spc # "panicked" /\ sOut = <<>>

(***************************************************************************)
(* package regexp: MustCompile, FindAllString                              *)
(*                                                                         *)
(* Pattern sources are byte strings over  a  \d  +  (  )  .  A compiled    *)
(* pattern is a sequence of items [class, plus]: one byte of the class,    *)
(* or one or more when plus is set.  Groups hold a single atom.            *)
(***************************************************************************)
\* the parser of regexp/syntax on this pattern language.  depth counts the
\* open parentheses; rep tells whether a repetition operator may follow.
RECURSIVE parse(_, _, _, _)
parse(s, items, depth, rep) ==
    IF Len(s) = 0
    THEN IF depth = 0 THEN [ok |-> TRUE, items |-> items]
         ELSE [ok |-> FALSE, items |-> <<>>]                    \* missing closing )
    ELSE IF s[1] = 92                                           \* backslash
    THEN IF Len(s) >= 2 /\ s[2] = 100
         THEN parse(From(s, 2), Append(items, [class |-> "d", plus |-> FALSE]), depth, TRUE)
         ELSE [ok |-> FALSE, items |-> <<>>]                    \* trailing backslash
    ELSE IF s[1] = 43                                           \* +
    THEN IF ~rep \/ items = <<>>
         THEN [ok |-> FALSE, items |-> <<>>]                    \* missing argument, ++
         ELSE parse(From(s, 1), [items EXCEPT ![Len(items)].plus = TRUE], depth, FALSE)
    ELSE IF s[1] = 40                                           \* (
    THEN parse(From(s, 1), items, depth + 1, FALSE)
    ELSE IF s[1] = 41                                           \* )
    THEN IF depth = 0
         THEN [ok |-> FALSE, items |-> <<>>]                    \* unexpected )
         ELSE parse(From(s, 1), items, depth - 1, items # <<>>)
    ELSE parse(From(s, 1), Append(items, [class |-> "a", plus |-> FALSE]), depth, TRUE)

\* syntax.Parse / regexp.Compile
Compile(src) == parse(src, <<>>, 0, FALSE)

InClass(b, c) == IF c = "d" THEN b >= 48 /\ b <= 57 ELSE b = 97

\* number of consecutive bytes of class c in s from byte index p on
RunLen(s, p, c) ==
    LET stops == {q \in p..(Len(s) - 1) : ~InClass(s[q + 1], c)}
    IN  IF stops = {} THEN Len(s) - p
        ELSE (CHOOSE q \in stops : \A r \in stops : q <= r) - p

SetMax(S) == CHOOSE x \in S : \A y \in S : y <= x
SetMin(S) == CHOOSE x \in S : \A y \in S : x <= y

\* matchEnd with the repetition taking as few bytes as possible
RECURSIVE matchEnd_Lazy(_, _, _)
matchEnd_Lazy(s, p, items) ==
    IF items = <<>> THEN p
    ELSE LET it == Head(items)
             run == RunLen(s, p, it.class)
             K == {k \in 1..(IF it.plus THEN run ELSE Min(run, 1)) :
                      matchEnd_Lazy(s, p + k, Tail(items)) # -1}
         IN  IF K = {} THEN -1 ELSE matchEnd_Lazy(s, p + SetMin(K), Tail(items))

\* the end of the match of items that starts at byte index p, or -1:
\* a repetition takes as many bytes as the rest of the pattern allows
RECURSIVE matchEnd(_, _, _)
matchEnd(s, p, items) ==
    IF items = <<>> THEN p
    ELSE LET it == Head(items)
             run == RunLen(s, p, it.class)
             K == {k \in 1..(IF it.plus THEN run ELSE Min(run, 1)) :
                      matchEnd(s, p + k, Tail(items)) # -1}
         IN  IF K = {} THEN -1 ELSE matchEnd(s, p + SetMax(K), Tail(items))

\* doExecute: the leftmost match starting at or after at, or none
doExecute(s, items, at) ==
    LET starts == {q \in at..Len(s) : matchEnd(s, q, items) # -1}
    IN  IF starts = {} THEN <<>>
        ELSE LET q == SetMin(starts) IN <<q, matchEnd(s, q, items)>>

\* the loop of Regexp.allMatches: at most n matches; after a match the
\* search resumes at its end; an empty match moves on by one rune and is
\* dropped when it sits at the end of the previous match
RECURSIVE allMatches(_, _, _, _, _, _)
allMatches(s, items, n, at, i, prevMatchEnd) ==
    IF ~(i < n /\ at <= Len(s)) THEN <<>>
    ELSE LET m == doExecute(s, items, at)
         IN  IF m = <<>> THEN <<>>
             ELSE LET empty == m[2] = at
                      accept == ~(empty /\ m[1] = prevMatchEnd)
                      next == IF ~empty THEN m[2]
                              ELSE IF at < Len(s)
                                   THEN at + DecodeRuneInString(From(s, at)).size
                                   ELSE Len(s) + 1
                  IN  (IF accept
                       THEN <<[start |-> m[1], end |-> m[2],
                               text |-> SubSeq(s, m[1] + 1, m[2])]>>
                       ELSE <<>>)
                      \o allMatches(s, items, n, next, IF accept THEN i + 1 ELSE i, m[2])

\* rg.FindAllString(s, n); n < 0 means all matches
FindAllString(items, s, n) ==
    allMatches(s, items, IF n < 0 THEN Len(s) + 1 ELSE n, 0, 0, -1)

\* "I'm Batman 123 And 55"
Slogan == <<73, 39, 109, 32, 66, 97, 116, 109, 97, 110, 32, 49, 50, 51, 32,
            65, 110, 100, 32, 53, 53>>

\* pattern sources: \d+  a+  \d  a\d+  (\d+)  and the empty pattern;
\* malformed: \d+(  )  +  a++  \
DigitsPlus == <<92, 100, 43>>
PatternSources ==
    {DigitsPlus, <<97, 43>>, <<92, 100>>, <<97, 92, 100, 43>>,
     <<40, 92, 100, 43, 41>>, <<>>,
     <<92, 100, 43, 40>>, <<41>>, <<43>>, <<97, 43, 43>>, <<92>>}

\* bytes the searched texts are drawn from: "1", "5", "a", " "
MatchBytes   == {49, 53, 97, 32}
MaxMatchText == 4

InitMatch ==
    /\ idleBuf /\ idleRunes
    /\ sText = <<>> /\ sSep = <<>> /\ parts = <<>> /\ joined = <<>> /\ spc = "idle"
    /\ idleOp
    /\ mSrc \in PatternSources
    /\ mText \in SeqsUpTo(MatchBytes, MaxMatchText) \cup {Slogan}
    /\ mPat = <<>> /\ mLimit = 0 /\ matches = <<>> /\ mpc = "start"

\* rg := regexp.MustCompile(src): panics when src does not parse; main does
\* not recover, so the process ends there
MustCompile ==
    /\ mpc = "start"
    /\ LET c == Compile(mSrc)
       IN  /\ mPat' = c.items
           /\ mpc' = IF c.ok THEN "compiled" ELSE "panicked"
    /\ UNCHANGED <<mSrc, mText, mLimit, matches, bufVars, runeVars, segVars>>

\* allMatches := rg.FindAllString(text, n)
DoFindAll ==
    /\ mpc = "compiled"
    /\ \E n \in -1..MaxCount :
          /\ matches' = FindAllString(mPat, mText, n)
          /\ mLimit' = n
    /\ mpc' = "found"
    /\ UNCHANGED <<mSrc, mPat, mText, bufVars, runeVars, segVars>>

NextMatch == MustCompile \/ DoFindAll

SpecMatch == InitMatch /\ [][NextMatch]_vars

(***************************************************************************)
(* Properties of the regexp calls (specification SpecMatch)                *)
(***************************************************************************)
\* the maximal runs of bytes of class c in s, as [start, end) ranges
MaximalRuns(s, c) ==
    {r \in (0..Len(s)) \X (0..Len(s)) :
        /\ r[1] < r[2]
        /\ \A q \in (r[1] + 1)..r[2] : InClass(s[q], c)
        /\ r[1] = 0 \/ ~InClass(s[r[1]], c)
        /\ r[2] = Len(s) \/ ~InClass(s[r[2] + 1], c)}

Ranges(ms) == {<<ms[k].start, ms[k].end>> : k \in 1..Len(ms)}

\* C14: FindAllString returns at most n matches (n >= 0), each the text
\* between its offsets, in strictly left-to-right order, each starting at or
\* after the end of the one before; with n bounded they are the first n of
\* the unbounded result; unbounded, a pattern "class+" yields every maximal
\* run of the class; no match gives the empty sequence, not a failure;
\* \d+ on "I'm Batman 123 And 55" gives ["123", "55"].
C14_FindAllLeftToRight ==
    mpc = "found" =>
        LET all == FindAllString(mPat, mText, -1)
        IN  /\ mLimit >= 0 => Len(matches) <= mLimit
            /\ \A k \in 1..Len(matches) :
                  /\ matches[k].start <= matches[k].end
                  /\ matches[k].text = SubSeq(mText, matches[k].start + 1, matches[k].end)
                  /\ k > 1 => /\ matches[k].start >= matches[k - 1].end
                              /\ matches[k].start > matches[k - 1].start
            /\ mLimit >= 0 => matches = SubSeq(all, 1, Min(mLimit, Len(all)))
            /\ (mLimit < 0 /\ Len(mPat) = 1 /\ mPat[1].plus) =>
                  Ranges(matches) = MaximalRuns(mText, mPat[1].class)
            /\ (mLimit < 0 /\ mSrc = DigitsPlus /\ mText = Slogan) =>
                  matches = <<[start |-> 11, end |-> 14, text |-> <<49, 50, 51>>],
                              [start |-> 19, end |-> 21, text |-> <<53, 53>>]>>

C14_Witness ==
    /\ mpc = "found" /\ mLimit = -1 /\ mSrc = DigitsPlus /\ mText = Slogan
    /\ Len(matches) = 2 /\ matches[1].text = <<49, 50, 51>> /\ matches[2].text = <<53, 53>>

\* C15 as stated: compiling a malformed pattern source hands a
\* PatternSyntaxError back to the caller: no pattern, and the process goes on.
C15_SyntaxErrorReturned ==
    (mpc # "start" /\ ~Compile(mSrc).ok) => (mpc = "error_returned" /\ mPat = <<>>)

(***************************************************************************)
(* package strings: TrimSpace                                              *)
(***************************************************************************)
\* the asciiSpace table of package strings: \t \n \v \f \r and space
asciiSpace(c) == c \in {9, 10, 11, 12, 13, 32}

\* IsSpace that knows the ASCII space only
IsSpace_OnlyBlank(r) == r = 32

\* unicode.IsSpace: in Latin-1 the ASCII spaces, U+0085 and U+00A0;
\* beyond it the White_Space table
IsSpace(r) ==
    IF r <= 255 THEN r \in {9, 10, 11, 12, 13, 32, 133, 160}
    ELSE r \in ({5760, 8232, 8233, 8239, 8287, 12288} \cup (8192..8202))

\* utf8.RuneStart: b is not a continuation byte
RuneStart(b) == ~IsCont(b)

\* utf8.DecodeLastRuneInString: the last rune of the non-empty s and its
\* width; backs up at most UTFMax bytes to the start of the rune
DecodeLastRuneInString(s) ==
    LET end == Len(s)
    IN  IF s[end] < RuneSelf THEN [r |-> s[end], size |-> 1]
        ELSE LET lim == Max(end - 4, 0)
                 found == {q \in lim..(end - 2) : RuneStart(s[q + 1])}
                 start == IF found # {} THEN CHOOSE q \in found : \A y \in found : y <= q
                          ELSE Max(lim - 1, 0)
                 d == DecodeRuneInString(SubSeq(s, start + 1, end))
             IN  IF start + d.size # end THEN [r |-> RuneError, size |-> 1] ELSE d

\* strings.TrimLeftFunc(s, unicode.IsSpace)
RECURSIVE TrimLeftSpace(_)
TrimLeftSpace(s) ==
    IF Len(s) = 0 THEN <<>>
    ELSE LET d == DecodeRuneInString(s)
         IN  IF IsSpace(d.r) THEN TrimLeftSpace(From(s, d.size)) ELSE s

\* lastIndexFunc(s, unicode.IsSpace, false): byte index of the last rune
\* that is not a space, or -1
RECURSIVE lastIndexNotSpace(_)
lastIndexNotSpace(s) ==
    IF Len(s) = 0 THEN -1
    ELSE LET d == DecodeLastRuneInString(s)
         IN  IF IsSpace(d.r) THEN lastIndexNotSpace(SubSeq(s, 1, Len(s) - d.size))
             ELSE Len(s) - d.size

\* strings.TrimRightFunc(s, unicode.IsSpace)
TrimRightSpace(s) ==
    LET i == lastIndexNotSpace(s)
    IN  IF i >= 0 /\ s[i + 1] >= RuneSelf
        THEN SubSeq(s, 1, i + DecodeRuneInString(From(s, i)).size)
        ELSE SubSeq(s, 1, i + 1)

\* strings.TrimSpace(s): ASCII spaces are cut off byte by byte at both ends;
\* the first non-ASCII byte met hands over to the rune-wise TrimFunc /
\* TrimRightFunc with unicode.IsSpace
TrimSpace(s) ==
    LET keepL == {q \in 0..(Len(s) - 1) : ~asciiSpace(s[q + 1])}
        start == IF keepL = {} THEN Len(s) ELSE SetMin(keepL)
    IN  IF start < Len(s) /\ s[start + 1] >= RuneSelf
        THEN TrimRightSpace(TrimLeftSpace(From(s, start)))
        ELSE LET keepR == {q \in (start + 1)..Len(s) : ~asciiSpace(s[q])}
                 stop == IF keepR = {} THEN start ELSE SetMax(keepR)
             IN  IF stop > start /\ s[stop] >= RuneSelf
                 THEN TrimRightSpace(SubSeq(s, start + 1, stop))
                 ELSE SubSeq(s, start + 1, stop)

\* bytes the texts are drawn from: space, tab, "a", C2 A0 (U+00A0)
TrimBytes == {32, 9, 97, 194, 160}
\* "     Hallo Leute  "
HalloLeute == <<32, 32, 32, 32, 32, 72, 97, 108, 108, 111, 32, 76, 101, 117,
                116, 101, 32, 32>>
\* U+3000, "a", U+2003, "a", U+3000, space
WideSpaces == <<227, 128, 128, 97, 226, 128, 131, 97, 227, 128, 128, 32>>

InitTrim ==
    /\ idleBuf /\ idleRunes /\ idleOp /\ idleMatch
    /\ sText \in SeqsUpTo(TrimBytes, MaxTextLen) \cup {HalloLeute, WideSpaces}
    /\ sSep = <<>> /\ parts = <<>> /\ joined = <<>> /\ spc = "start"

\* strings.TrimSpace(strwspace)
DoTrim ==
    /\ spc = "start"
    /\ sOut' = TrimSpace(sText)
    /\ sStatus' = "ok"
    /\ spc' = "trimmed"
    /\ UNCHANGED <<sText, sSep, parts, joined, sNew, sN, sCount, bufVars, runeVars, matchVars>>

NextTrim == DoTrim

SpecTrim == InitTrim /\ [][NextTrim]_vars

(***************************************************************************)
(* Properties of TrimSpace (specification SpecTrim)                        *)
(***************************************************************************)
\* the scalar values with the Unicode White_Space property
WhiteSpace ==
    {9, 10, 11, 12, 13, 32, 133, 160, 5760, 8232, 8233, 8239, 8287, 12288}
        \cup (8192..8202)

\* C17: for a valid UTF-8 text TrimSpace returns the part of the text from
\* its first scalar value that is not whitespace to its last one, interior
\* whitespace included, and the empty text when there is none; the text
\* argument keeps its value.
C17_TrimSpaceEndsOnly ==
    (spc = "trimmed" /\ ValidString(sText)) =>
        LET rs == StringToRunes(sText)
            keep == {k \in 1..Len(rs) : rs[k] \notin WhiteSpace}
        IN  sOut = IF keep = {} THEN <<>>
                   ELSE RunesToString(SubSeq(rs, SetMin(keep), SetMax(keep)))

C17_Witness ==
    /\ spc = "trimmed" /\ sText = WideSpaces
    /\ sOut = <<97, 226, 128, 131, 97>>

(***************************************************************************)
(* Strings returned by the builder (specification Spec)                    *)
(***************************************************************************)
\* the bytes of the inputs in lg, one after the other in call order
RECURSIVE LogBytes(_)
LogBytes(lg) ==
    IF Len(lg) = 0 THEN <<>>
    ELSE (IF Head(lg).op = "WriteRune" THEN EncodeRune(Head(lg).input)
          ELSE Head(lg).input) \o LogBytes(Tail(lg))

\* C18: a string returned by String() keeps, through every later Write*,
\* String and Reset on the same builder, exactly the bytes the builder held
\* when it was returned.
C18_SnapshotsAreImmutable ==
    \A k \in 1..Len(snaps) : StringBytes(heap, snaps[k]) = snaps[k].taken

C18_Witness ==
    \E k \in 1..Len(snaps) :
        /\ snaps[k].len > 0
        /\ lastOp \in AppendOps
        /\ snaps[k].ptr = buf.ptr /\ buf.len > snaps[k].len
        /\ StringBytes(heap, snaps[k]) = snaps[k].taken

\* C19: String() returns the inputs written since the most recent Reset
\* (since creation when there was none), concatenated in call order, and
\* nothing written before that Reset.
C19_StringIsConcatSinceReset ==
    lastOp = "String" => StringBytes(heap, LastSnap) = LogBytes(log)

C19_Witness ==
    /\ lastOp = "String" /\ nAppends = 2 /\ Len(log) = 1
    /\ StringBytes(heap, LastSnap) = LogBytes(log) /\ LastSnap.len > 0

====
